---- MODULE Spec2Model ----
(***************************************************************************)
(* Smart Gmail Notifier: the background service worker (GmailNotifier, in  *)
(* its two versions src/unnamed/part_001 and src/unnamed/part_002) and the *)
(* classifier (AIProcessor, src/ai.js).                                    *)
(*                                                                         *)
(* Concurrency model.  JavaScript runs one task at a time; an async        *)
(* function gives up control only at an await of an external operation     *)
(* (chrome.identity, fetch, chrome.storage, chrome.alarms).  Each such     *)
(* await is a program position (pc) and its continuation is one action,    *)
(* which runs the code up to the next external await.  An await of an      *)
(* async function that finishes without an external operation only yields  *)
(* to the microtask queue and is not a position of its own.                *)
(*                                                                         *)
(* chrome.storage.local is taken to serve its operations in the order they *)
(* are issued: a set or a get takes effect when it is issued, and its      *)
(* caller continues later.                                                 *)
(***************************************************************************)
EXTENDS Integers, Sequences, FiniteSets, TLC

\* Bounds of the model.
MaxMsg == 2        \* message ids 1..MaxMsg are unread at the message source
MaxCycles == 2     \* checkForNewEmails invocations that can be in flight together
MaxInits == 1      \* lifecycle events (onInstalled, onStartup) of one worker start

VARIABLES
  variant,            \* which background script is loaded: "part_001" | "part_002"
  isRunning,          \* GmailNotifier.isRunning
  authToken,          \* GmailNotifier.authToken: "null" | "tok"
  processedMessages,  \* GmailNotifier.processedMessages: a JS Set, in insertion order
  stored,             \* chrome.storage.local[processed_messages]: an array
  aiSettings,         \* AIProcessor.settings cache: "none" | "key" | "nokey"
  alarmListener,      \* part_002: the onAlarm listener added by startPolling
  cyc,                \* the checkForNewEmails invocations in flight, oldest first
  ini,                \* the initialize() invocations in flight, oldest first
  tog,                \* the togglePolling handler: "idle" | "auth"
  finished,           \* history: ids whose markAsProcessed returned since the last clear
  cl                  \* the classifier's run (ClassSpec)

nvars == <<variant, isRunning, authToken, processedMessages, stored,
           aiSettings, alarmListener, cyc, ini, tog, finished>>
vars == <<nvars, cl>>

(***************************************************************************)
(* The processed set.                                                      *)
(***************************************************************************)
\* Set.prototype.has
Has(set, m) == \E j \in 1..Len(set) : set[j] = m

\* Set.prototype.add: a JS Set keeps insertion order and no duplicates
Add(set, m) == IF Has(set, m) THEN set ELSE Append(set, m)

\* new Set(array): the array's elements, first occurrences in order
RECURSIVE NewSet(_)
NewSet(arr) ==
  IF arr = <<>> THEN <<>>
  ELSE Add(NewSet(SubSeq(arr, 1, Len(arr) - 1)), arr[Len(arr)])

\* Array.from(set)
ArrayFrom(set) == set

Elems(seq) == {seq[j] : j \in 1..Len(seq)}

RemoveAt(seq, j) == SubSeq(seq, 1, j - 1) \o SubSeq(seq, j + 1, Len(seq))

\* The unread list the message source returns at every poll: the messages stay
\* unread (the extension never marks a message read), in a fixed order.
Inbox == [j \in 1..MaxMsg |-> j]

(***************************************************************************)
(* checkForNewEmails, as a record per invocation.                          *)
(*   pc     position: the external operation awaited                       *)
(*   i      index in unreadEmails of the message in the pipeline           *)
(*   r      the outcome the awaited storage operation was served with;     *)
(*          "okc": a served write of the processed list that a later       *)
(*          clearProcessed has overwritten                                 *)
(*   byInit part_002: awaited by startPolling, called from initialize      *)
(*   att    history: chrome.notifications.create was called for message i  *)
(*   after  history: ids not yet reached by the loop that had finished     *)
(*          before this invocation began                                   *)
(***************************************************************************)
NewCycleRec == [pc |-> "new", i |-> 0, r |-> "-", byInit |-> FALSE, att |-> FALSE,
                after |-> {}]

PipelinePcs == {"settings", "ai", "mark"}

Cur(c) == Inbox[c.i]

\* The part of the state a continuation of invocation c reads and writes.
Machine(c) ==
  [c |-> cyc[c], pm |-> processedMessages, st |-> stored, ais |-> aiSettings,
   tok |-> authToken, fin |-> finished]

\* checkForNewEmails returns ("end") or throws ("rej"): the invocation is over.
EndCycle(M) == [M EXCEPT !.c.pc = "over", !.c.r = "end"]

\* authenticate(true), entered from the catch block
ForceAuth(M) ==
  [M EXCEPT !.c.pc = IF M.tok # "null" THEN "reauthRm" ELSE "reauthGet"]

\* The catch block of checkForNewEmails: authenticate(true) when the error's message
\* holds 401; the invocation ends there either way, whatever is left of the batch.
Catch(M, err) ==
  IF err = "401" THEN ForceAuth(M) ELSE EndCycle(M)

\* markAsProcessed / markMessageAsProcessed up to its await: add the id and issue
\* the write of the whole set.
MarkIssue(M, wok) ==
  LET pm2 == Add(M.pm, Cur(M.c))
  IN [M EXCEPT !.pm = pm2,
               !.st = IF wok THEN ArrayFrom(pm2) ELSE @,
               !.c.pc = "mark",
               !.c.r = IF wok THEN "ok" ELSE "fail"]

\* chrome.notifications.create (processEmail / showNotification), then the mark:
\* the states the step can end in, create throwing or not and the write served or
\* rejected.
\* part_001: an exception of create leaves processEmail and the loop.
\* part_002: processNewEmail catches it and the loop goes on to the mark.
NotifyAndMark(M) ==
  LET M1 == [M EXCEPT !.c.att = TRUE]
  IN (IF variant = "part_001" THEN {Catch(M1, "other")} ELSE {})
     \cup {MarkIssue(M1, wok) : wok \in BOOLEAN}

\* aiProcessor.processEmail after loadSettings: rules when there is no key or the
\* cleaned body is empty, else the AI call (awaited).
AfterSettings(M) ==
  IF M.ais # "key"
  THEN NotifyAndMark(M)
  ELSE NotifyAndMark(M) \cup {[M EXCEPT !.c.pc = "ai", !.c.r = "-"]}

\* The for loop of checkForNewEmails from index j on: the first message that is not
\* in the processed set enters the pipeline; with none left the last-check time is
\* written. A read of the settings issued now finds a key or none (the popup writes
\* settings.aiApiKey at any time).
LoopFrom(M, j) ==
  LET todo == {k \in j..Len(Inbox) : ~Has(M.pm, Inbox[k])}
  IN IF todo = {}
     THEN {[M EXCEPT !.c.pc = "last", !.c.i = Len(Inbox) + 1, !.c.r = "-",
                     !.c.att = FALSE, !.c.after = {}]}
     ELSE LET n == CHOOSE k \in todo : \A k2 \in todo : k <= k2
              M1 == [M EXCEPT !.c.i = n, !.c.att = FALSE,
                              !.c.after = @ \cap {Inbox[k] : k \in (n + 1)..Len(Inbox)}]
          IN IF M1.ais = "none"
             THEN {[M1 EXCEPT !.c.pc = "settings", !.c.r = found] :
                      found \in {"key", "nokey"}}
             ELSE AfterSettings(M1)

\* checkForNewEmails from its start to its first await.
Begin(c, tok) == [c EXCEPT !.pc = IF tok = "null" THEN "auth" ELSE "list"]

(***************************************************************************)
(* Actions of the notifier.                                                *)
(***************************************************************************)
HasFreeSlot == Len(cyc) < MaxCycles

\* A call of checkForNewEmails, run to its first await.
NewCycle(byInit, tok) ==
  Begin([NewCycleRec EXCEPT !.byInit = byInit, !.after = finished], tok)

\* The state after a continuation of invocation c. When the invocation is over and
\* part_002's startPolling awaited it, startPolling goes on: it adds the alarm
\* listener if the invocation returned, and initialize's catch ends it if it threw.
Commit(c, M) ==
  LET ended == M.c.pc = "over"
      awaited == ended /\ M.c.byInit
  IN /\ cyc' = IF ended THEN RemoveAt(cyc, c) ELSE [cyc EXCEPT ![c] = M.c]
     /\ ini' = IF awaited
               THEN SelectSeq(ini, LAMBDA e : e.pc # "cycle")
               ELSE ini
     /\ alarmListener' = (alarmListener \/ (awaited /\ M.c.r = "end"))
     /\ processedMessages' = M.pm
     /\ stored' = M.st
     /\ aiSettings' = M.ais
     /\ authToken' = M.tok
     /\ finished' = M.fin
     /\ UNCHANGED <<variant, isRunning, tog, cl>>

\* The service worker starts: the module is evaluated again, `new GmailNotifier()`
\* and `new AIProcessor()` replace the old instances and whatever was in flight is
\* gone. chrome.storage outlives the worker. n lifecycle events are delivered, each
\* calling initialize(), which issues loadStoredData's read: onInstalled on an
\* install or update, onStartup on a browser start, and none when Manifest V3 wakes
\* a worker it had stopped for being idle.
Restart(n) ==
  /\ isRunning' = FALSE
  /\ authToken' = "null"
  /\ processedMessages' = <<>>
  /\ aiSettings' = "none"
  /\ alarmListener' = FALSE
  /\ cyc' = <<>>
  /\ tog' = "idle"
  /\ ini' = [k \in 1..n |-> [pc |-> "load", snap |-> stored]]
  /\ UNCHANGED <<variant, stored, finished, cl>>

\* loadStoredData after its await: the set is rebuilt from the data read.
\* part_001: initialize is over. part_002: initialize goes on to authenticate().
LoadResolve(k) ==
  /\ k \in 1..Len(ini)
  /\ ini[k].pc = "load"
  /\ processedMessages' = NewSet(ini[k].snap)
  /\ ini' = IF variant = "part_001" THEN RemoveAt(ini, k)
            ELSE [ini EXCEPT ![k] = [pc |-> "auth", snap |-> <<>>]]
  /\ UNCHANGED <<variant, isRunning, authToken, stored, aiSettings,
                 alarmListener, cyc, tog, finished, cl>>

\* part_002 initialize: authenticate() settles, then startPolling up to its await of
\* chrome.alarms.create; a second startPolling returns at once, and a rejection is
\* caught by initialize.
InitAuthResolve(k, ok) ==
  /\ k \in 1..Len(ini)
  /\ ini[k].pc = "auth"
  /\ IF ok
     THEN /\ authToken' = "tok"
          /\ IF isRunning
             THEN /\ ini' = RemoveAt(ini, k)
                  /\ UNCHANGED isRunning
             ELSE /\ isRunning' = TRUE
                  /\ ini' = [ini EXCEPT ![k].pc = "alarm"]
     ELSE /\ ini' = RemoveAt(ini, k)
          /\ UNCHANGED <<authToken, isRunning>>
  /\ UNCHANGED <<variant, processedMessages, stored, aiSettings, alarmListener,
                 cyc, tog, finished, cl>>

\* part_002 startPolling after chrome.alarms.create: `await this.checkForNewEmails()`.
InitAlarmCreated(k) ==
  /\ k \in 1..Len(ini)
  /\ ini[k].pc = "alarm"
  /\ HasFreeSlot
  /\ cyc' = Append(cyc, NewCycle(TRUE, authToken))
  /\ ini' = [ini EXCEPT ![k].pc = "cycle"]
  /\ UNCHANGED <<variant, isRunning, authToken, processedMessages, stored,
                 aiSettings, alarmListener, tog, finished, cl>>

\* part_001 onMessage togglePolling: stopPolling when running (isRunning = false,
\* the alarm cleared), else authenticate(). One handler awaits authenticate() at a
\* time.
ToggleClick ==
  /\ variant = "part_001"
  /\ IF isRunning
     THEN /\ isRunning' = FALSE
          /\ UNCHANGED tog
     ELSE /\ tog = "idle"
          /\ tog' = "auth"
          /\ UNCHANGED isRunning
  /\ UNCHANGED <<variant, authToken, processedMessages, stored, aiSettings,
                 alarmListener, cyc, ini, finished, cl>>

\* part_001 togglePolling after authenticate(): startPolling creates the alarm and
\* calls checkForNewEmails() without awaiting it; a rejection is caught.
ToggleAuthResolve(ok) ==
  /\ tog = "auth"
  /\ tog' = "idle"
  /\ IF ok
     THEN /\ HasFreeSlot
          /\ authToken' = "tok"
          /\ isRunning' = TRUE
          /\ cyc' = Append(cyc, NewCycle(FALSE, "tok"))
     ELSE UNCHANGED <<authToken, isRunning, cyc>>
  /\ UNCHANGED <<variant, processedMessages, stored, aiSettings, alarmListener,
                 ini, finished, cl>>

\* The 'gmail-poll' alarm fires. part_001: the top-level listener calls
\* checkForNewEmails when isRunning (the alarm exists whenever isRunning, as
\* startPolling creates it and only stopPolling clears it). part_002: the listener
\* that startPolling added after creating the alarm calls it.
Alarm ==
  /\ IF variant = "part_001" THEN isRunning ELSE alarmListener
  /\ HasFreeSlot
  /\ cyc' = Append(cyc, NewCycle(FALSE, authToken))
  /\ UNCHANGED <<variant, isRunning, authToken, processedMessages, stored,
                 aiSettings, alarmListener, ini, tog, finished, cl>>

\* checkForNewEmails after `await this.authenticate()`.
CycAuthResolve(c, ok) ==
  /\ c \in 1..Len(cyc)
  /\ cyc[c].pc = "auth"
  /\ Commit(c, IF ok
               THEN [Machine(c) EXCEPT !.tok = "tok", !.c.pc = "list"]
               ELSE Catch(Machine(c), "other"))

\* checkForNewEmails after `await gmailAPI.getUnreadEmails(...)`: the batch, or an
\* error whose message holds the HTTP status.
ListResolve(c, out) ==
  /\ c \in 1..Len(cyc)
  /\ cyc[c].pc = "list"
  /\ \E M2 \in (CASE out = "ok" -> LoopFrom(Machine(c), 1)
                   [] out = "401" -> {Catch(Machine(c), "401")}
                   [] OTHER -> {Catch(Machine(c), "other")}) :
        Commit(c, M2)

\* aiProcessor.loadSettings after its storage read. A rejected read makes
\* aiProcessor.processEmail throw: part_001 leaves the loop, part_002's
\* processNewEmail logs it and the loop goes on to markMessageAsProcessed.
SettingsResolve(c, ok) ==
  /\ c \in 1..Len(cyc)
  /\ cyc[c].pc = "settings"
  /\ \E M2 \in (IF ok
                 THEN AfterSettings([Machine(c) EXCEPT !.ais = cyc[c].r])
                 ELSE IF variant = "part_001"
                      THEN {Catch(Machine(c), "other")}
                      ELSE {MarkIssue(Machine(c), wok) : wok \in BOOLEAN}) :
        Commit(c, M2)

\* callAI's fetch settles (a response or an error: callAI returns a result either way).
AIResolve(c) ==
  /\ c \in 1..Len(cyc)
  /\ cyc[c].pc = "ai"
  /\ \E M2 \in NotifyAndMark(Machine(c)) : Commit(c, M2)

\* markAsProcessed after its storage write: the loop goes on, or the rejection
\* leaves the loop.
MarkSettle(c) ==
  /\ c \in 1..Len(cyc)
  /\ cyc[c].pc = "mark"
  /\ \E M2 \in (CASE cyc[c].r = "ok" ->
                     LoopFrom([Machine(c) EXCEPT !.fin = @ \cup {Cur(cyc[c])}],
                              cyc[c].i + 1)
                   [] cyc[c].r = "okc" -> LoopFrom(Machine(c), cyc[c].i + 1)
                   [] OTHER -> {Catch(Machine(c), "other")}) :
        Commit(c, M2)

\* checkForNewEmails after the write of the last-check time: it returns, or the
\* rejection is caught and logged; the invocation is over either way.
LastSettle(c) ==
  /\ c \in 1..Len(cyc)
  /\ cyc[c].pc = "last"
  /\ Commit(c, EndCycle(Machine(c)))

\* authenticate(true) after removeCachedAuthToken.
ReauthRemoved(c) ==
  /\ c \in 1..Len(cyc)
  /\ cyc[c].pc = "reauthRm"
  /\ Commit(c, [Machine(c) EXCEPT !.tok = "null", !.c.pc = "reauthGet"])

\* authenticate(true) after getAuthToken: the new token, or the rejection leaves
\* checkForNewEmails.
ReauthGot(c, ok) ==
  /\ c \in 1..Len(cyc)
  /\ cyc[c].pc = "reauthGet"
  /\ Commit(c, IF ok
               THEN EndCycle([Machine(c) EXCEPT !.tok = "tok"])
               ELSE [EndCycle(Machine(c)) EXCEPT !.c.r = "rej"])

\* onMessage clearProcessed: the set is emptied and the write of [] is issued, not
\* awaited.
ClearProcessed(wok) ==
  /\ processedMessages' = <<>>
  /\ stored' = IF wok THEN <<>> ELSE stored
  /\ finished' = {}
  /\ cyc' = [c \in 1..Len(cyc) |->
               [cyc[c] EXCEPT !.after = {},
                              !.r = IF cyc[c].pc = "mark" /\ @ = "ok" THEN "okc" ELSE @]]
  /\ UNCHANGED <<variant, isRunning, authToken, aiSettings,
                 alarmListener, ini, tog, cl>>

ClOff == [pc |-> "off"]

\* The worker's first start, on install: onInstalled calls initialize().
NInit ==
  /\ variant \in {"part_001", "part_002"}
  /\ isRunning = FALSE
  /\ authToken = "null"
  /\ processedMessages = <<>>
  /\ stored = <<>>
  /\ aiSettings = "none"
  /\ alarmListener = FALSE
  /\ cyc = <<>>
  /\ ini = <<[pc |-> "load", snap |-> <<>>]>>
  /\ tog = "idle"
  /\ finished = {}

Init == NInit /\ cl = ClOff

Slots == 1..MaxCycles
Inits == 1..MaxInits

Next ==
  \/ \E n \in 0..MaxInits : Restart(n)
  \/ \E k \in Inits : LoadResolve(k)
  \/ \E k \in Inits, ok \in BOOLEAN : InitAuthResolve(k, ok)
  \/ \E k \in Inits : InitAlarmCreated(k)
  \/ ToggleClick
  \/ \E ok \in BOOLEAN : ToggleAuthResolve(ok)
  \/ Alarm
  \/ \E c \in Slots, ok \in BOOLEAN : CycAuthResolve(c, ok)
  \/ \E c \in Slots, out \in {"ok", "401", "err"} : ListResolve(c, out)
  \/ \E c \in Slots, ok \in BOOLEAN : SettingsResolve(c, ok)
  \/ \E c \in Slots : AIResolve(c)
  \/ \E c \in Slots : MarkSettle(c)
  \/ \E c \in Slots : LastSettle(c)
  \/ \E c \in Slots : ReauthRemoved(c)
  \/ \E c \in Slots, ok \in BOOLEAN : ReauthGot(c, ok)
  \/ \E wok \in BOOLEAN : ClearProcessed(wok)

Spec == Init /\ [][Next]_vars

\* The operations of the platform settle; the AI service may never answer, the
\* worker need not restart and the user need not act.
Fairness ==
  /\ \A k \in Inits : WF_vars(LoadResolve(k))
  /\ \A k \in Inits : WF_vars(\E ok \in BOOLEAN : InitAuthResolve(k, ok))
  /\ \A k \in Inits : WF_vars(InitAlarmCreated(k))
  /\ WF_vars(\E ok \in BOOLEAN : ToggleAuthResolve(ok))
  /\ \A c \in Slots :
        /\ WF_vars(\E ok \in BOOLEAN : CycAuthResolve(c, ok))
        /\ WF_vars(\E out \in {"ok", "401", "err"} : ListResolve(c, out))
        /\ WF_vars(\E ok \in BOOLEAN : SettingsResolve(c, ok))
        /\ WF_vars(MarkSettle(c))
        /\ WF_vars(LastSettle(c))
        /\ WF_vars(ReauthRemoved(c))
        /\ WF_vars(\E ok \in BOOLEAN : ReauthGot(c, ok))

FairSpec == Init /\ [][Next]_vars /\ Fairness

(***************************************************************************)
(* The classifier (AIProcessor, src/ai.js).                                *)
(*                                                                         *)
(* A text is a sequence of tokens: words, "NL" for a line break, "url" for *)
(* a URL. A regular expression of the code is modelled by the single words *)
(* among its alternatives; the texts of the model hold none of its         *)
(* phrases, and are shorter than the 900 characters cleanEmail keeps.      *)
(***************************************************************************)
MaxBody == 3           \* tokens of a body
MaxSubjectWords == 32  \* words of the longest subject
MaxAIWords == 36       \* words of the longest summary the AI service returns
MaxSummaryWords == 35  \* the word limit of a summary
MinSummaryChars == 10  \* processEmail: `aiResult.summary.length < 10`

BodyWords == {"hi", "NL", "url", "interview", "update", "otp", "numbers"}

Bodies == UNION {[1..n -> BodyWords] : n \in 0..MaxBody}

Subjects == {<<>>, <<"Budget">>, <<"Interview">>, [k \in 1..MaxSubjectWords |-> "Budget"]}

\* String.prototype.toLowerCase, on the words of the model
Lower(w) ==
  CASE w = "Budget" -> "budget"
    [] w = "Interview" -> "interview"
    [] OTHER -> w

LowerAll(text) == [j \in 1..Len(text) |-> Lower(text[j])]

\* regex.test(text), case-insensitive: some word of the text is among the alternatives
Matches(text, kws) == \E j \in 1..Len(text) : Lower(text[j]) \in kws

\* The index of the first token t of the text, 0 when there is none
First(text, t) ==
  IF \E j \in 1..Len(text) : text[j] = t
  THEN CHOOSE j \in 1..Len(text) : text[j] = t /\ \A j2 \in 1..(j - 1) : text[j2] # t
  ELSE 0

\* string.length: the words' characters and one space between two words
RECURSIVE Chars(_)
Chars(text) ==
  IF text = <<>> THEN 0
  ELSE IF Len(text) = 1 THEN Len(text[1])
  ELSE Chars(SubSeq(text, 1, Len(text) - 1)) + 1 + Len(text[Len(text)])

\* cleanEmail: a greeting at the start goes with its line, when the line ends;
\* a URL goes; runs of whitespace, line breaks included, become one space and the
\* ends are trimmed, which leaves the words. The quoted-reply, original-message
\* and "sent from my" patterns are phrases, which no text of the model holds.
cleanEmail(text) ==
  LET nl == First(text, "NL")
      t1 == IF text # <<>> /\ Lower(text[1]) \in {"hi", "hello", "dear"} /\ nl > 0
            THEN SubSeq(text, nl + 1, Len(text))
            ELSE text
  IN SelectSeq(t1, LAMBDA w : w \notin {"url", "NL"})

Allowed == {"Urgent", "Reply Required", "FYI", "No Reply Needed"}

validateTagKeep(tag) == tag

validateTag(tag) == IF tag \in Allowed THEN tag ELSE "FYI"

\* A sentence's last word carries the full stop.
WithStop(words) ==
  [k \in 1..Len(words) |-> IF k = Len(words) THEN words[k] \o "." ELSE words[k]]

basicFallback(subject, text) ==
  IF Matches(text, {"interview", "hr", "recruiter", "hiring"})
  THEN [summary |-> <<"Interview-related", "email;", "reply", "to", "confirm", "next",
                      "steps.">>,
        tag |-> "Reply Required"]
  ELSE IF Matches(text, {"invite", "event", "meetup", "session"})
  THEN [summary |-> <<"Event", "invitation;", "reply", "if", "you", "want", "to",
                      "attend.">>,
        tag |-> "Reply Required"]
  ELSE IF Matches(text, {"respond"})
  THEN [summary |-> <<"This", "email", "asks", "for", "your", "response", "or",
                      "confirmation.">>,
        tag |-> "Reply Required"]
  ELSE IF Matches(text, {"update", "announcement", "newsletter", "inform"})
  THEN [summary |-> <<"This", "email", "shares", "an", "update", "or",
                      "announcement.">>,
        tag |-> "FYI"]
  ELSE [summary |-> IF subject # <<>>
                    THEN <<"This", "email", "is", "about">> \o WithStop(LowerAll(subject))
                    ELSE <<"This", "email", "contains", "general", "information.">>,
        tag |-> "No Reply Needed"]

\* addContextHint's cascade, in the order of the code: the first rule that matches
\* gives the summary.
HintRules ==
  <<[kw |-> {"otp"},
      summary |-> <<"One-time", "password", "received", "for", "account", "verification.">>],
     [kw |-> {"interview", "hr", "recruiter", "hiring", "selection", "availability"},
      summary |-> <<"Interview-related", "email;", "reply", "to", "confirm", "availability.">>],
     [kw |-> {"event", "meetup", "webinar", "conference", "session"},
      summary |-> <<"Event", "invitation", "received;", "reply", "if", "you", "want", "to", "attend.">>],
     [kw |-> {"rescheduled"},
      summary |-> <<"Meeting", "or", "event", "has", "been", "rescheduled;", "review", "updated", "details.">>],
     [kw |-> {"cancelled", "canceled"},
      summary |-> <<"Meeting", "or", "event", "has", "been", "cancelled.">>],
     [kw |-> {"overdue"},
      summary |-> <<"Payment", "due;", "review", "and", "complete", "before", "the", "deadline.">>],
     [kw |-> {"invoice", "receipt"},
      summary |-> <<"Payment", "or", "invoice", "details", "received.">>],
     [kw |-> {"refund"},
      summary |-> <<"Refund", "update", "received;", "check", "transaction", "details.">>],
     [kw |-> {"discount", "sale", "deal"},
      summary |-> <<"Promotional", "offer", "received;", "check", "details", "if", "interested.">>],
     [kw |-> {"introducing"},
      summary |-> <<"Promotional", "announcement", "about", "a", "new", "product", "or", "feature.">>],
     [kw |-> {"newsletter"},
      summary |-> <<"Newsletter", "received;", "informational", "update.">>],
     [kw |-> {"appreciate"},
      summary |-> <<"Thank-you", "or", "appreciation", "message", "received.">>],
     [kw |-> {"congratulations", "congrats"},
      summary |-> <<"Congratulations", "message", "received.">>]>>

addContextHint(summary, subject, body) ==
  LET text == subject \o body
      hit == {r \in 1..Len(HintRules) : Matches(text, HintRules[r].kw)}
  IN IF hit = {} THEN summary
     ELSE HintRules[CHOOSE r \in hit : \A r2 \in hit : r <= r2].summary

\* What the AI service answers. kind: "transport" (fetch rejects), "status" (an
\* error status: the body has no choices), "badjson" (the content is not JSON),
\* "nosummary" (JSON without a summary string), "parsed".
AISummaries ==
  {<<>>, <<"Ok.">>,
   <<"Team", "shares", "the", "quarterly", "numbers.">>,
   <<"See", "url", "today.">>,
   <<"Call", "555-123-4567", "today.">>,
   [k \in 1..MaxAIWords |-> "word"]}

AITags == {"Urgent", "Reply Required", "Important", "absent"}

NoResp == [kind |-> "none", summary |-> <<>>, tag |-> "absent"]

Responses ==
  {[kind |-> k, summary |-> <<>>, tag |-> "absent"] :
      k \in {"transport", "status", "badjson", "nosummary"}}
  \cup {[kind |-> "parsed", summary |-> sm, tag |-> t] : sm \in AISummaries, t \in AITags}

\* callAI after its fetch: the parsed answer with its tag validated; any exception
\* in the try block gives basicFallback('', text).
callAI(text, resp) ==
  IF resp.kind = "parsed"
  THEN [summary |-> resp.summary, tag |-> validateTag(resp.tag)]
  ELSE basicFallback(<<>>, text)

NoResult == [summary |-> <<>>, tag |-> "none"]

\* processEmail(subject, body) is called, with or without settings.aiApiKey.
ClassInit ==
  /\ NInit
  /\ variant = "part_001"
  /\ cl \in [pc : {"start"}, subject : Subjects, body : Bodies, key : BOOLEAN,
             resp : {NoResp}, result : {NoResult}]

\* processEmail up to the await of callAI's fetch: the rules' result when there is
\* no key or nothing is left of the body.
ClStart ==
  /\ cl.pc = "start"
  /\ LET cleaned == cleanEmail(cl.body)
     IN cl' = IF ~cl.key \/ cleaned = <<>>
              THEN [cl EXCEPT !.pc = "done", !.result = basicFallback(cl.subject, cleaned)]
              ELSE [cl EXCEPT !.pc = "fetch"]
  /\ UNCHANGED nvars

\* callAI's fetch settles with resp, and processEmail runs to its return.
ClFetch(resp) ==
  /\ cl.pc = "fetch"
  /\ LET cleaned == cleanEmail(cl.body)
         aiResult == callAI(cleaned, resp)
     IN cl' = [cl EXCEPT
                 !.pc = "done",
                 !.resp = resp,
                 !.result =
                   IF aiResult.summary = <<>> \/ Chars(aiResult.summary) < MinSummaryChars
                   THEN basicFallback(cl.subject, cleaned)
                   ELSE [summary |-> addContextHint(aiResult.summary, cl.subject, cleaned),
                         tag |-> aiResult.tag]]
  /\ UNCHANGED nvars

ClassNext ==
  \/ ClStart
  \/ \E resp \in Responses : ClFetch(resp)

ClassSpec == ClassInit /\ [][ClassNext]_vars

(***************************************************************************)
(* The AIProcessor listed in src/README.md (lines 120-504): the sanitizer, *)
(* the validation of the AI service's answer and the rule classifier.      *)
(*                                                                         *)
(* Here a text is a sequence of characters, each a string of length one,   *)
(* and a regular expression is modelled by the matches it finds: leftmost  *)
(* first, greedy and lazy quantifiers in their order of preference.        *)
(***************************************************************************)
Uppers == <<"A", "B", "C", "D", "E", "F", "G", "H", "I", "J", "K", "L", "M", "N", "O", "P", "Q", "R", "S", "T", "U", "V", "W", "X", "Y", "Z">>

Lowers == <<"a", "b", "c", "d", "e", "f", "g", "h", "i", "j", "k", "l", "m", "n", "o", "p", "q", "r", "s", "t", "u", "v", "w", "x", "y", "z">>

Digits == {"0", "1", "2", "3", "4", "5", "6", "7", "8", "9"}

\* \s of a regular expression, and the line terminators `.` and `$` stop at
WS == {" ", "\n", "\t", "\r"}

LineEnds == {"\n", "\r"}

\* The lower-case letter of each upper-case letter
LowerMap ==
  [c \in {Uppers[k] : k \in 1..Len(Uppers)} |->
     Lowers[CHOOSE k \in 1..Len(Uppers) : Uppers[k] = c]]

\* \w of a regular expression
WordChar(c) ==
  c \in DOMAIN LowerMap \/ c \in {LowerMap[u] : u \in DOMAIN LowerMap} \/ c \in Digits \/ c = "_"

\* String.prototype.toLowerCase
toLowerCase(t) == [k \in 1..Len(t) |-> IF t[k] \in DOMAIN LowerMap THEN LowerMap[t[k]] ELSE t[k]]

MinOf(S) == CHOOSE i \in S : \A j \in S : i <= j

MaxOf(S) == CHOOSE i \in S : \A j \in S : i >= j

\* The literal lit stands in t at index i; ci: without regard to case
MatchAt(t, i, lit, ci) ==
  /\ i >= 1
  /\ i + Len(lit) - 1 <= Len(t)
  /\ IF ci THEN toLowerCase(SubSeq(t, i, i + Len(lit) - 1)) = toLowerCase(lit)
           ELSE SubSeq(t, i, i + Len(lit) - 1) = lit

\* String.prototype.includes
Includes(t, part) == \E i \in 1..(Len(t) + 1) : MatchAt(t, i, part, FALSE)

\* The last index of the line that index i is on (`.*$` of a multiline pattern
\* that has come as far as index i - 1)
LineEnd(t, i) ==
  LET E == {k \in i..Len(t) : t[k] \in LineEnds}
  IN IF E = {} THEN Len(t) ELSE MinOf(E) - 1

\* \b before index i (i - 1 and i are not both word characters or both not)
Boundary(t, i) ==
  (i >= 2 /\ i - 1 <= Len(t) /\ WordChar(t[i - 1])) # (i <= Len(t) /\ WordChar(t[i]))

\* /lit[\s\S]*?$/g without the m flag: from the first lit to the end of the text
CutAt(t, lit, ci) ==
  LET I == {i \in 1..Len(t) : MatchAt(t, i, lit, ci)}
  IN IF I = {} THEN t ELSE SubSeq(t, 1, MinOf(I) - 1)

\* The end of the match of pattern p that starts at index i of t, 0 when none
\* starts there. The patterns are those of preprocessEmailBody and of
\* validateAndEnforceSummary that can match more than once in a text.
NonSpaceEnd(t, s) ==
  LET E == {k \in s..Len(t) : t[k] \in WS}
  IN IF E = {} THEN Len(t) ELSE MinOf(E) - 1

\* /--\s*\n.*?(?=\n\n|\n[A-Z]|\n$)/gs
SigDashEnd(t, i) ==
  IF ~MatchAt(t, i, <<"-", "-">>, FALSE) THEN 0
  ELSE LET J == {j \in (i + 2)..Len(t) :
                   t[j] = "\n" /\ \A k \in (i + 2)..(j - 1) : t[k] \in WS}
           Ahead(k) == t[k] = "\n" /\ (k = Len(t) \/ t[k + 1] = "\n" \/ t[k + 1] \in DOMAIN LowerMap)
           K(j) == {k \in (j + 1)..Len(t) : Ahead(k)}
           JJ == {j \in J : K(j) # {}}
       IN IF JJ = {} THEN 0 ELSE MinOf(K(MaxOf(JJ))) - 1

\* /https?:\/\/[^\s]+/g
UrlEnd(t, i) ==
  LET s == IF MatchAt(t, i, <<"h", "t", "t", "p", "s", ":", "/", "/">>, FALSE) THEN i + 8
           ELSE IF MatchAt(t, i, <<"h", "t", "t", "p", ":", "/", "/">>, FALSE) THEN i + 7 ELSE 0
  IN IF s = 0 \/ s > Len(t) \/ t[s] \in WS THEN 0 ELSE NonSpaceEnd(t, s)

\* /www\.[^\s]+/g
WwwEnd(t, i) ==
  IF MatchAt(t, i, <<"w", "w", "w", ".">>, FALSE) /\ i + 4 <= Len(t) /\ t[i + 4] \notin WS
  THEN NonSpaceEnd(t, i + 4) ELSE 0

DigitsAt(t, i, n) == i + n - 1 <= Len(t) /\ \A k \in i..(i + n - 1) : t[k] \in Digits

\* [-.]? that takes s characters
SepAt(t, i, s) == s = 0 \/ (i <= Len(t) /\ t[i] \in {"-", "."})

\* /\b\d{3}[-.]?\d{3}[-.]?\d{4}\b/g
Phone10End(t, i) ==
  IF ~(Boundary(t, i) /\ DigitsAt(t, i, 3)) THEN 0
  ELSE LET C == {c \in (0..1) \X (0..1) :
                   /\ SepAt(t, i + 3, c[1])
                   /\ DigitsAt(t, i + 3 + c[1], 3)
                   /\ SepAt(t, i + 6 + c[1], c[2])
                   /\ DigitsAt(t, i + 6 + c[1] + c[2], 4)
                   /\ Boundary(t, i + 10 + c[1] + c[2])}
           Key(c) == 2 * c[1] + c[2]
       IN IF C = {} THEN 0
          ELSE LET c == CHOOSE c \in C : \A d \in C : Key(c) >= Key(d)
               IN i + 9 + c[1] + c[2]

\* /\b\d{1,3}[-.]?\d{1,3}[-.]?\d{1,4}[-.]?\d{1,4}\b/g: every quantifier is
\* greedy, so the match is the first that succeeds with the longer choices tried
\* first, from left to right.
PhoneEnd(t, i) ==
  IF ~(Boundary(t, i) /\ DigitsAt(t, i, 1)) THEN 0
  ELSE LET C == {c \in (1..3) \X (0..1) \X (1..3) \X (0..1) \X (1..4) \X (0..1) \X (1..4) :
                   /\ DigitsAt(t, i, c[1])
                   /\ SepAt(t, i + c[1], c[2])
                   /\ DigitsAt(t, i + c[1] + c[2], c[3])
                   /\ SepAt(t, i + c[1] + c[2] + c[3], c[4])
                   /\ DigitsAt(t, i + c[1] + c[2] + c[3] + c[4], c[5])
                   /\ SepAt(t, i + c[1] + c[2] + c[3] + c[4] + c[5], c[6])
                   /\ DigitsAt(t, i + c[1] + c[2] + c[3] + c[4] + c[5] + c[6], c[7])
                   /\ Boundary(t, i + c[1] + c[2] + c[3] + c[4] + c[5] + c[6] + c[7])}
           Key(c) == (((((c[1] * 2 + c[2]) * 4 + c[3]) * 2 + c[4]) * 5 + c[5]) * 2 + c[6]) * 5 + c[7]
       IN IF C = {} THEN 0
          ELSE LET c == CHOOSE c \in C : \A d \in C : Key(c) >= Key(d)
               IN i + c[1] + c[2] + c[3] + c[4] + c[5] + c[6] + c[7] - 1

\* /\n\s*\n\s*\n/g: from a line break to the last line break of the run of
\* whitespace it is in, when the run has three of them from there on
BlankLinesEnd(t, i) ==
  IF ~(i <= Len(t) /\ t[i] = "\n") THEN 0
  ELSE LET R == {k \in i..Len(t) : \A k2 \in i..k : t[k2] \in WS}
           N == {k \in R : t[k] = "\n"}
       IN IF Cardinality(N) >= 3 THEN MaxOf(N) ELSE 0

Closings == {<<"B", "e", "s", "t">>, <<"R", "e", "g", "a", "r", "d", "s">>, <<"S", "i", "n", "c", "e", "r", "e", "l", "y">>, <<"T", "h", "a", "n", "k", "s">>, <<"T", "h", "a", "n", "k", " ", "y", "o", "u">>, <<"C", "h", "e", "e", "r", "s">>}

Greetings == {<<"H", "i">>, <<"H", "e", "l", "l", "o">>, <<"D", "e", "a", "r">>, <<"H", "e", "y">>, <<"G", "o", "o", "d", " ", "m", "o", "r", "n", "i", "n", "g">>, <<"G", "o", "o", "d", " ", "a", "f", "t", "e", "r", "n", "o", "o", "n">>}

\* One of the phrases at index i, then a comma or a whitespace character
PhraseAt(t, i, phrases) ==
  \E w \in phrases :
    /\ MatchAt(t, i, w, TRUE)
    /\ i + Len(w) <= Len(t)
    /\ t[i + Len(w)] \in WS \cup {","}

\* The index after the phrase and its comma or whitespace character (the phrases
\* of one list that match at one index have one length)
AfterPhrase(t, i, phrases) ==
  LET w == CHOOSE w \in phrases :
             MatchAt(t, i, w, TRUE) /\ i + Len(w) <= Len(t) /\ t[i + Len(w)] \in WS \cup {","}
  IN i + Len(w) + 1

\* /^(Best|Regards|Sincerely|Thanks|Thank you|Cheers)[,\s].*?$/gim
ClosingEnd(t, i) ==
  IF (i = 1 \/ (i >= 2 /\ i - 1 <= Len(t) /\ t[i - 1] \in LineEnds)) /\ PhraseAt(t, i, Closings)
  THEN LET q == AfterPhrase(t, i, Closings)
       IN IF q > Len(t) THEN Len(t) ELSE LineEnd(t, q)
  ELSE 0

\* The matches of each pattern: for every index of t, where a match that
\* starts there ends (less than the index when none starts there)
QuoteEnds(t) == [i \in 1..Len(t) |-> IF t[i] = ">" THEN LineEnd(t, i) ELSE 0]

FromEnds(t) == [i \in 1..Len(t) |-> IF MatchAt(t, i, <<"F", "r", "o", "m", ":">>, FALSE) THEN LineEnd(t, i) ELSE 0]

\* String.prototype.replace with a pattern of the g flag: every match, from
\* left to right and without overlap, becomes repl; ends gives the matches of
\* the pattern in t, and from is where the scan is
RECURSIVE ReplaceAll(_, _, _, _)
ReplaceAll(ends, t, from, repl) ==
  LET I == {i \in from..Len(t) : ends[i] >= i}
  IN IF I = {} THEN SubSeq(t, from, Len(t))
     ELSE SubSeq(t, from, MinOf(I) - 1) \o repl
          \o ReplaceAll(ends, t, ends[MinOf(I)] + 1, repl)

\* pattern.test(t), ends being the matches of the pattern in t
Test(ends) == \E i \in DOMAIN ends : ends[i] >= i

\* cleaned.replace(/\s+/g, ' ')
CollapseWS(t) ==
  SelectSeq([k \in 1..Len(t) |->
               IF t[k] \notin WS THEN t[k]
               ELSE IF k > 1 /\ t[k - 1] \in WS THEN "" ELSE " "],
            LAMBDA c : c # "")

\* String.prototype.trim, and replace(/^\s+|\s+$/g, '')
Trim(t) ==
  LET N == {k \in 1..Len(t) : t[k] \notin WS}
  IN IF N = {} THEN <<>> ELSE SubSeq(t, MinOf(N), MaxOf(N))

\* String.prototype.split(/[S]+/): the pieces between the runs of characters of
\* S, an empty piece before a leading run and after a trailing one
SplitRuns(t, S) ==
  LET c == SelectSeq([k \in 1..Len(t) |->
                        IF t[k] \notin S THEN t[k]
                        ELSE IF k > 1 /\ t[k - 1] \in S THEN "" ELSE "SEP"],
                     LAMBDA x : x # "")
      seps == SelectSeq([k \in 1..(Len(c) + 2) |-> k - 1],
                        LAMBDA k : k = 0 \/ k = Len(c) + 1 \/ c[k] = "SEP")
  IN [n \in 1..(Len(seps) - 1) |-> SubSeq(c, seps[n] + 1, seps[n + 1] - 1)]

\* text.split(/\s+/).filter(word => word.length > 0)
Words(t) == SelectSeq(SplitRuns(t, WS), LAMBDA word : Len(word) > 0)

\* Array.prototype.slice(0, n) and String.prototype.substring(0, n)
Slice(words, n) == SubSeq(words, 1, IF Len(words) < n THEN Len(words) ELSE n)

\* Array.prototype.join(' ')
RECURSIVE Join(_)
Join(words) ==
  IF words = <<>> THEN <<>>
  ELSE IF Len(words) = 1 THEN words[1]
  ELSE Join(SubSeq(words, 1, Len(words) \div 2)) \o <<" ">>
       \o Join(SubSeq(words, Len(words) \div 2 + 1, Len(words)))

\* The characters line 251 keeps: [\w\s\.\,\!\?\-\:\;\(\)\[\]\"\'\/]
Kept(c) ==
  WordChar(c) \/ c \in WS
  \/ c \in {".", ",", "!", "?", "-", ":", ";", "(", ")", "[", "]", "\"", "'", "/"}

WordLimit == 400  \* preprocessEmailBody: words.slice(0, 400)

\* signaturePatterns (lines 211-225), each applied to what the one before left
signaturePatterns(t) ==
  LET s1 == ReplaceAll([i \in 1..Len(t) |-> SigDashEnd(t, i)], t, 1, <<>>)
      s2 == CutAt(s1, <<"B", "e", "s", "t", " ", "r", "e", "g", "a", "r", "d", "s", ",">>, TRUE)
      s3 == CutAt(s2, <<"R", "e", "g", "a", "r", "d", "s", ",">>, TRUE)
      s4 == CutAt(s3, <<"S", "i", "n", "c", "e", "r", "e", "l", "y", ",">>, TRUE)
      s5 == CutAt(s4, <<"T", "h", "a", "n", "k", " ", "y", "o", "u", ",">>, TRUE)
      s6 == CutAt(s5, <<"T", "h", "a", "n", "k", "s", ",">>, TRUE)
      s7 == CutAt(s6, <<"S", "e", "n", "t", " ", "f", "r", "o", "m", " ", "m", "y">>, TRUE)
      s8 == CutAt(s7, <<"G", "e", "t", " ", "O", "u", "t", "l", "o", "o", "k", " ", "f", "o", "r">>, TRUE)
  IN CutAt(s8, <<"_", "_", "_", "_", "_", "_", "_", "_", "_", "_", "_", "_", "_", "_", "_", "_", "_", "_", "_", "_", "_", "_", "_", "_", "_", "_", "_", "_", "_", "_", "_", "_">>, FALSE)

\* /On .+? wrote:[\s\S]*?$/gi: from the first "On " that has " wrote:" later on
\* its line, with a character between, to the end of the text
OnWrote(t) ==
  LET I == {i \in 1..Len(t) :
              /\ MatchAt(t, i, <<"O", "n", " ">>, TRUE)
              /\ \E k \in (i + 4)..Len(t) :
                   /\ MatchAt(t, k, <<" ", "w", "r", "o", "t", "e", ":">>, TRUE)
                   /\ \A k2 \in (i + 3)..(k - 1) : t[k2] \notin LineEnds}
  IN IF I = {} THEN t ELSE SubSeq(t, 1, MinOf(I) - 1)

\* replyPatterns (lines 228-238)
replyPatterns(t) ==
  LET r1 == OnWrote(t)
      r2 == ReplaceAll(QuoteEnds(r1), r1, 1, <<>>)
      r3 == ReplaceAll(FromEnds(r2), r2, 1, <<>>)
      r4 == CutAt(r3, <<"-", "-", "-", "-", "-", "O", "r", "i", "g", "i", "n", "a", "l", " ", "M", "e", "s", "s", "a", "g", "e", "-", "-", "-", "-", "-">>, TRUE)
  IN CutAt(r4, <<"F", "o", "r", "w", "a", "r", "d", "e", "d", " ", "m", "e", "s", "s", "a", "g", "e">>, TRUE)

\* Lines 241-244: URLs and phone numbers become placeholders
Redact(t) ==
  LET u1 == ReplaceAll([i \in 1..Len(t) |-> UrlEnd(t, i)], t, 1, <<"[", "U", "R", "L", "]">>)
      u2 == ReplaceAll([i \in 1..Len(u1) |-> WwwEnd(u1, i)], u1, 1, <<"[", "U", "R", "L", "]">>)
      u3 == ReplaceAll([i \in 1..Len(u2) |-> Phone10End(u2, i)], u2, 1, <<"[", "P", "H", "O", "N", "E", "]">>)
  IN ReplaceAll([i \in 1..Len(u3) |-> PhoneEnd(u3, i)], u3, 1, <<"[", "P", "H", "O", "N", "E", "]">>)

\* Lines 247-251: line breaks reduced, whitespace normalised, trimmed, special
\* characters removed
CleanFormatting(t) ==
  LET w1 == ReplaceAll([i \in 1..Len(t) |-> BlankLinesEnd(t, i)], t, 1, <<"\n", "\n">>)
      w2 == Trim(CollapseWS(w1))
  IN SelectSeq(w2, Kept)

\* /^(Hi|Hello|Dear|Hey|Good morning|Good afternoon)[,\s].*?\n/gi: without the
\* m flag ^ is the start of the text only; the match ends with the first line
\* break, which has to be on the greeting's line
GreetingLine(t) ==
  IF PhraseAt(t, 1, Greetings)
  THEN LET q == AfterPhrase(t, 1, Greetings)
           N == {k \in q..Len(t) : t[k] = "\n" /\ \A k2 \in q..(k - 1) : t[k2] \notin LineEnds}
       IN IF N = {} THEN t ELSE SubSeq(t, MinOf(N) + 1, Len(t))
  ELSE t

\* greetingPatterns (lines 254-261)
greetingPatterns(t) ==
  LET g == GreetingLine(t)
  IN ReplaceAll([i \in 1..Len(g) |-> ClosingEnd(g, i)], g, 1, <<>>)

LimitWordsAll(t) == Join(Words(t))

\* Lines 264-266: the first 400 words, joined by single spaces
LimitWords(t) ==
  Join(Slice(Words(t), WordLimit))

preprocessEmailBody(bodyContent) ==
  IF bodyContent = <<>> THEN <<>>
  ELSE Trim(CollapseWS(LimitWords(greetingPatterns(CleanFormatting(
         Redact(replyPatterns(signaturePatterns(bodyContent))))))))

EmergencyWords == 15   \* createEmergencySummary: words.slice(0, 15)
EmergencyChars == 150  \* createEmergencySummary: summary.length > 150
EmergencyKeep == 147   \* createEmergencySummary: summary.substring(0, 147)
CopyMinLength == 100   \* validateAndEnforceSummary: summary.length > 100
CopyPrefix == 50       \* validateAndEnforceSummary: substring(0, 50)

\* summary.match(/[.!?]$/)
EndsStop(t) == t # <<>> /\ t[Len(t)] \in {".", "!", "?"}

createEmergencySummaryOpen(content) ==
  Join(Slice(Words(content), EmergencyWords))

createEmergencySummary(content) ==
  LET joined == Join(Slice(Words(content), EmergencyWords))
      summary == IF Len(joined) > EmergencyChars
                 THEN Slice(joined, EmergencyKeep) \o <<".", ".", ".">>
                 ELSE joined
  IN IF EndsStop(summary) THEN summary ELSE summary \o <<".">>

\* forbiddenPatterns.forEach(pattern => pattern.test(summary))
hasForbiddenContent(summary) ==
  \/ Test([i \in 1..Len(summary) |-> UrlEnd(summary, i)])
  \/ Test([i \in 1..Len(summary) |-> WwwEnd(summary, i)])
  \/ Test([i \in 1..Len(summary) |-> Phone10End(summary, i)])
  \/ \E i \in 1..Len(summary) :                       \* /^--$/gm
       /\ MatchAt(summary, i, <<"-", "-">>, FALSE)
       /\ (i = 1 \/ summary[i - 1] \in LineEnds)
       /\ (i + 1 = Len(summary) \/ (i + 2 <= Len(summary) /\ summary[i + 2] \in LineEnds))
  \/ \E i \in 1..Len(summary) :                       \* /^>+/gm
       summary[i] = ">" /\ (i = 1 \/ summary[i - 1] \in LineEnds)
  \/ Test(FromEnds(summary))
  \/ \E i \in 1..Len(summary) : MatchAt(summary, i, <<"S", "e", "n", "t", " ", "f", "r", "o", "m", " ", "m", "y">>, TRUE)

RepeatsContentNever(summary, originalContent) == FALSE

\* The check of line 366
RepeatsContent(summary, originalContent) ==
  /\ Len(summary) > CopyMinLength
  /\ Includes(toLowerCase(originalContent), Slice(toLowerCase(summary), CopyPrefix))

\* An answer of the AI service without a summary has the empty text there and
\* one without a tag has "absent" (`aiResult.summary || 'Email content received'`,
\* `aiResult.tag || 'No Action Needed'`).
validateAndEnforceSummary(aiResult, originalContent) ==
  LET s0 == IF aiResult.summary = <<>>
            THEN <<"E", "m", "a", "i", "l", " ", "c", "o", "n", "t", "e", "n", "t", " ", "r", "e", "c", "e", "i", "v", "e", "d">> ELSE aiResult.summary
      s1 == IF Len(Words(s0)) > MaxSummaryWords
            THEN createEmergencySummary(originalContent) ELSE s0
      s2 == IF hasForbiddenContent(s1) THEN createEmergencySummary(originalContent) ELSE s1
      s3 == IF RepeatsContent(s2, originalContent)
            THEN createEmergencySummary(originalContent) ELSE s2
  IN [summary |-> s3,
      tag |-> IF aiResult.tag = "absent" THEN "No Action Needed" ELSE aiResult.tag]

validTags == {"Urgent", "Action Required", "FYI", "No Action Needed"}

\* validateTag of the README's AIProcessor (lines 498-501)
validateTagDefault(tag) == IF tag \in validTags THEN tag ELSE "No Action Needed"

generateRuleBasedSummaryFromBody(bodyContent) ==
  IF Trim(bodyContent) = <<>> THEN <<"E", "m", "a", "i", "l", " ", "c", "o", "n", "t", "e", "n", "t", " ", "r", "e", "c", "e", "i", "v", "e", "d", ".">>
  ELSE
    LET sentences == SelectSeq(SplitRuns(bodyContent, {".", "!", "?"}),
                               LAMBDA s : Len(Trim(s)) > 10)
    IN IF Len(sentences) > 0
       THEN LET first == Trim(sentences[1])
                words == Words(first)
                cut == Join(Slice(words, 25))
                secondWords == Words(Trim(sentences[2]))
                remainingWords == 25 - Len(words)
                more == first \o <<" ">> \o Join(Slice(secondWords, remainingWords))
                summary ==
                  IF Len(words) > 25
                  THEN IF EndsStop(cut) THEN cut ELSE cut \o <<".", ".", ".">>
                  ELSE IF Len(words) < 10 /\ Len(sentences) > 1
                          /\ Len(secondWords) > 0 /\ remainingWords > 5
                  THEN IF EndsStop(more) THEN more ELSE more \o <<".">>
                  ELSE first
                finalWords == Words(summary)
            IN IF Len(finalWords) > MaxSummaryWords
               THEN Join(Slice(finalWords, 32)) \o <<".", ".", ".">>
               ELSE summary
       ELSE LET words == Words(bodyContent)
            IN Join(Slice(words, 20)) \o (IF Len(words) > 20 THEN <<".", ".", ".">> ELSE <<".">>)

\* generateRuleBasedSummary(subject, '') as processEmail calls it
generateRuleBasedSummary(subject) ==
  IF Trim(subject) # <<>> THEN <<"E", "m", "a", "i", "l", " ", "r", "e", "g", "a", "r", "d", "i", "n", "g", ":", " ">> \o subject ELSE <<"N", "e", "w", " ", "e", "m", "a", "i", "l", " ", "r", "e", "c", "e", "i", "v", "e", "d">>

urgentPatterns ==
  {<<"u", "r", "g", "e", "n", "t">>, <<"i", "m", "m", "e", "d", "i", "a", "t", "e">>, <<"a", "s", "a", "p">>, <<"e", "m", "e", "r", "g", "e", "n", "c", "y">>, <<"c", "r", "i", "t", "i", "c", "a", "l">>, <<"d", "e", "a", "d", "l", "i", "n", "e">>,
   <<"p", "a", "y", "m", "e", "n", "t", " ", "o", "v", "e", "r", "d", "u", "e">>, <<"a", "c", "c", "o", "u", "n", "t", " ", "s", "u", "s", "p", "e", "n", "d", "e", "d">>, <<"s", "e", "r", "v", "i", "c", "e", " ", "t", "e", "r", "m", "i", "n", "a", "t", "e", "d">>,
   <<"s", "e", "c", "u", "r", "i", "t", "y", " ", "a", "l", "e", "r", "t">>, <<"u", "n", "u", "s", "u", "a", "l", " ", "a", "c", "t", "i", "v", "i", "t", "y">>, <<"v", "e", "r", "i", "f", "y", " ", "y", "o", "u", "r", " ", "a", "c", "c", "o", "u", "n", "t">>,
   <<"e", "x", "p", "i", "r", "e", "s", " ", "t", "o", "d", "a", "y">>, <<"d", "u", "e", " ", "t", "o", "d", "a", "y">>, <<"l", "a", "s", "t", " ", "c", "h", "a", "n", "c", "e">>, <<"f", "i", "n", "a", "l", " ", "n", "o", "t", "i", "c", "e">>}

actionPatterns ==
  {<<"p", "l", "e", "a", "s", "e">>, <<"c", "o", "u", "l", "d", " ", "y", "o", "u">>, <<"n", "e", "e", "d", " ", "y", "o", "u">>, <<"r", "e", "q", "u", "e", "s", "t">>, <<"r", "e", "q", "u", "i", "r", "e">>,
   <<"r", "e", "p", "l", "y">>, <<"r", "e", "s", "p", "o", "n", "d">>, <<"c", "o", "n", "f", "i", "r", "m">>, <<"a", "p", "p", "r", "o", "v", "e">>, <<"r", "e", "j", "e", "c", "t">>,
   <<"m", "e", "e", "t", "i", "n", "g">>, <<"a", "p", "p", "o", "i", "n", "t", "m", "e", "n", "t">>, <<"s", "c", "h", "e", "d", "u", "l", "e">>, <<"c", "a", "l", "l">>,
   <<"s", "i", "g", "n">>, <<"c", "o", "m", "p", "l", "e", "t", "e">>, <<"f", "i", "l", "l", " ", "o", "u", "t">>, <<"s", "u", "b", "m", "i", "t">>,
   <<"y", "o", "u", "r", " ", "r", "e", "s", "p", "o", "n", "s", "e", " ", "i", "s", " ", "n", "e", "e", "d", "e", "d">>, <<"w", "a", "i", "t", "i", "n", "g", " ", "f", "o", "r", " ", "y", "o", "u", "r", " ", "r", "e", "p", "l", "y">>}

fyiPatterns ==
  {<<"u", "p", "d", "a", "t", "e">>, <<"a", "n", "n", "o", "u", "n", "c", "e", "m", "e", "n", "t">>, <<"n", "e", "w", "s", "l", "e", "t", "t", "e", "r">>, <<"r", "e", "p", "o", "r", "t">>,
   <<"i", "n", "f", "o", "r", "m", "a", "t", "i", "o", "n">>, <<"f", "y", "i">>, <<"f", "o", "r", " ", "y", "o", "u", "r", " ", "i", "n", "f", "o", "r", "m", "a", "t", "i", "o", "n">>,
   <<"c", "h", "a", "n", "g", "e", "d">>, <<"n", "e", "w", " ", "f", "e", "a", "t", "u", "r", "e">>, <<"m", "a", "i", "n", "t", "e", "n", "a", "n", "c", "e">>,
   <<"t", "h", "i", "s", " ", "i", "s", " ", "t", "o", " ", "i", "n", "f", "o", "r", "m", " ", "y", "o", "u">>, <<"w", "e", " ", "w", "a", "n", "t", "e", "d", " ", "t", "o", " ", "l", "e", "t", " ", "y", "o", "u", " ", "k", "n", "o", "w">>}

\* patterns.some(pattern => pattern.test(text)): an alternative of a pattern of
\* the list occurs in the text
Some(patterns, text) == \E a \in patterns : Includes(text, a)

processWithRulesFYIFirst(subject, bodyContent) ==
  LET text == toLowerCase(bodyContent)
  IN [summary |-> generateRuleBasedSummaryFromBody(bodyContent),
      tag |-> IF Some(fyiPatterns, text) THEN "FYI"
              ELSE IF Some(urgentPatterns, text) THEN "Urgent"
              ELSE IF Some(actionPatterns, text) THEN "Action Required"
              ELSE "No Action Needed"]

processWithRules(subject, bodyContent) ==
  LET text == toLowerCase(bodyContent)
  IN [summary |-> generateRuleBasedSummaryFromBody(bodyContent),
      tag |-> IF Some(urgentPatterns, text) THEN "Urgent"
              ELSE IF Some(actionPatterns, text) THEN "Action Required"
              ELSE IF Some(fyiPatterns, text) THEN "FYI"
              ELSE "No Action Needed"]

processWithAIFullFallback(subject, bodyContent, resp) ==
  IF /\ resp.kind = "parsed"
     /\ validateAndEnforceSummary(resp, bodyContent).summary
          \in {resp.summary, <<"E", "m", "a", "i", "l", " ", "c", "o", "n", "t", "e", "n", "t", " ", "r", "e", "c", "e", "i", "v", "e", "d">>}
  THEN [summary |-> validateAndEnforceSummary(resp, bodyContent).summary,
        tag |-> validateTagDefault(validateAndEnforceSummary(resp, bodyContent).tag)]
  ELSE processWithRules(subject, bodyContent)

\* processWithAI after its fetch has settled with resp: !response.ok, no content
\* and a JSON.parse failure are caught and give the rules' result.
processWithAI(subject, bodyContent, resp) ==
  IF resp.kind = "parsed"
  THEN LET validatedResult == validateAndEnforceSummary(resp, bodyContent)
       IN [summary |-> validatedResult.summary, tag |-> validateTagDefault(validatedResult.tag)]
  ELSE processWithRules(subject, bodyContent)

\* n copies of the text w, one after the other
Repeat(w, n) == [k \in 1..(n * Len(w)) |-> w[((k - 1) % Len(w)) + 1]]

MaxLongWords == 16  \* words of the body of long words

\* Bodies of messages, as parseMessage extracts them
RdBodies ==
  {<<>>,
   <<"T", "h", "a", "n", "k", "s", " ", "f", "o", "r", " ", "t", "h", "e", " ", "u", "p", "d", "a", "t", "e", ".">>,
   <<"H", "i", " ", "J", "o", "h", "n", ",", "\n", "P", "l", "e", "a", "s", "e", " ", "s", "e", "n", "d", " ", "t", "h", "e", " ", "r", "e", "p", "o", "r", "t", " ", "b", "y", " ", "F", "r", "i", "d", "a", "y", ".", "\n", "B", "e", "s", "t", " ", "r", "e", "g", "a", "r", "d", "s", ",", "\n", "J", "a", "n", "e">>,
   <<"T", "h", "e", " ", "b", "u", "d", "g", "e", "t", " ", "r", "e", "v", "i", "e", "w", " ", "h", "a", "s", " ", "m", "o", "v", "e", "d", " ", "t", "o", " ", "T", "h", "u", "r", "s", "d", "a", "y", " ", "a", "f", "t", "e", "r", "n", "o", "o", "n", " ", "s", "o", " ", "e", "v", "e", "r", "y", "o", "n", "e", " ", "s", "h", "o", "u", "l", "d", " ", "b", "r", "i", "n", "g", " ", "t", "h", "e", "i", "r", " ", "f", "i", "g", "u", "r", "e", "s", " ", "a", "n", "d", " ", "t", "h", "e", " ", "s", "i", "g", "n", "e", "d", " ", "f", "o", "r", "m", "s", " ", "t", "o", " ", "r", "o", "o", "m", " ", "t", "w", "e", "l", "v", "e">>,
   Repeat(<<"i", "n", "t", "e", "r", "n", "a", "t", "i", "o", "n", "a", "l", "i", "z", "a", "t", "i", "o", "n", " ">>, MaxLongWords),
   <<"U", "R", "G", "E", "N", "T", ":", " ", "p", "l", "e", "a", "s", "e", " ", "u", "p", "d", "a", "t", "e", " ", "t", "h", "e", " ", "r", "e", "p", "o", "r", "t">>,
   <<"P", "l", "e", "a", "s", "e", " ", "u", "p", "d", "a", "t", "e", " ", "m", "e">>,
   <<"N", "e", "w", " ", "u", "p", "d", "a", "t", "e", " ", "p", "o", "s", "t", "e", "d">>,
   <<"N", "o", "t", "h", "i", "n", "g", " ", "h", "e", "r", "e", " ", "a", "t", " ", "a", "l", "l">>,
   Repeat(<<"w", " ">>, MaxAIWords + 4),
   Repeat(<<"a", "b", "c", "d", "e", "f", "g", "h", "i", " ">>, EmergencyWords - 1) \o <<"a", "b", "c", "d", "e", "f", "g", "h", "i", "j">>,
   <<"S", "h", "o", "r", "t", " ", "o", "n", "e", " ", "h", "e", "r", "e", ".", " ", "T", "h", "e", "n", " ", "a", " ", "s", "e", "c", "o", "n", "d", " ", "s", "e", "n", "t", "e", "n", "c", "e", " ", "f", "o", "l", "l", "o", "w", "s", " ", "w", "i", "t", "h", " ", "m", "o", "r", "e", " ", "w", "o", "r", "d", "s">>}

RdSubjects == {<<>>, <<"B", "u", "d", "g", "e", "t">>}

\* Summaries the AI service can answer with (its tag is one of the taxonomy, one
\* outside it, or absent), given the content it was sent: none,
\* one of more than 35 words, ones with a URL or a phone number, copies of the
\* start of the content, and a summary in its own words
RdSummaries(content) ==
  {<<>>,
   Trim(Repeat(<<"w", "o", "r", "d", " ">>, MaxAIWords)),
   <<"S", "e", "e", " ", "h", "t", "t", "p", "s", ":", "/", "/", "x", ".", "i", "o", "/", "a", " ", "n", "o", "w">>,
   <<"C", "a", "l", "l", " ", "5", "5", "5", "-", "1", "2", "3", "-", "4", "5", "6", "7", " ", "t", "o", "d", "a", "y">>,
   Slice(content, CopyPrefix + 30),
   Slice(content, CopyMinLength + 20),
   <<"B", "u", "d", "g", "e", "t", " ", "r", "e", "v", "i", "e", "w", " ", "m", "o", "v", "e", "d", " ", "t", "o", " ", "T", "h", "u", "r", "s", "d", "a", "y", ".">>}

RdResponses(content) ==
  {[kind |-> k, summary |-> <<>>, tag |-> "absent"] :
      k \in {"transport", "status", "nocontent", "badjson"}}
  \cup {[kind |-> "parsed", summary |-> sm, tag |-> t] : sm \in RdSummaries(content), t \in {"Urgent", "FYI", "Important", "absent"}}

\* processEmail(subject, bodySnippet) of the README's AIProcessor is called
ReadmeInit ==
  /\ NInit
  /\ variant = "part_001"
  /\ cl \in [pc : {"start"}, subject : RdSubjects, body : RdBodies, key : BOOLEAN,
             resp : {NoResp}, content : {<<>>}, result : {NoResult}]

\* processEmail up to the await of processWithAI's fetch, or to the rules' result
RdStart ==
  /\ cl.pc = "start"
  /\ LET content == IF cl.body # <<>> THEN cl.body
                    ELSE cl.subject \o <<" ">> \o generateRuleBasedSummary(<<>>)
         cleanedContent == preprocessEmailBody(content)
     IN cl' = IF cl.key
              THEN [cl EXCEPT !.pc = "fetch", !.content = cleanedContent]
              ELSE [cl EXCEPT !.pc = "done", !.content = cleanedContent,
                              !.result = processWithRules(cl.subject, cleanedContent)]
  /\ UNCHANGED nvars

\* processWithAI's fetch settles with resp, and processEmail runs to its return
RdFetch(resp) ==
  /\ cl.pc = "fetch"
  /\ cl' = [cl EXCEPT !.pc = "done", !.resp = resp,
                      !.result = processWithAI(cl.subject, cl.content, resp)]
  /\ UNCHANGED nvars

ReadmeNext ==
  \/ RdStart
  \/ \E resp \in RdResponses(cl.content) : RdFetch(resp)

ReadmeSpec == ReadmeInit /\ [][ReadmeNext]_vars

MaxPieces == 3      \* pieces of a text given to the sanitizer
MaxExtraWords == 2  \* words beyond the 400 of the longest text

\* Pieces of the texts given to the sanitizer: a greeting line, content, a
\* closing, a URL, phone numbers and shorter groups of digits, a signature marker
\* broken over two lines, a quoted line, a thanks, a special character
Pieces ==
  {<<"H", "i", " ", "J", "o", "h", "n", ",", "\n">>,
   <<"P", "l", "e", "a", "s", "e", " ", "s", "e", "n", "d", " ", "t", "h", "e", " ", "r", "e", "p", "o", "r", "t", " ", "b", "y", " ", "F", "r", "i", "d", "a", "y", ".", "\n">>,
   <<"B", "e", "s", "t", " ", "r", "e", "g", "a", "r", "d", "s", ",", "\n", "J", "a", "n", "e">>,
   <<"S", "e", "e", " ", "h", "t", "t", "p", "s", ":", "/", "/", "x", ".", "i", "o", "/", "a", " ">>,
   <<"w", "w", "w", ".", "a", " ">>,
   <<"c", "a", "l", "l", " ", "5", "5", "5", "-", "1", "2", "3", "-", "4", "5", "6", "7", " ">>,
   <<"i", "n", " ", "2", "0", "2", "4", " ">>,
   <<"S", "e", "n", "t", "\n", "f", "r", "o", "m", " ", "m", "y", " ", "p", "h", "o", "n", "e", " ">>,
   <<">", " ", "q", "u", "o", "t", "e", "d", "\n">>,
   <<"T", "h", "a", "n", "k", "s", " ">>,
   <<"a", "@", "b", " ">>,
   <<"-", "-", " ", "\n", "J", "a", "n", "e", "\n", "\n">>}

RECURSIVE Concat(_)
Concat(ps) == IF ps = <<>> THEN <<>> ELSE ps[1] \o Concat(Tail(ps))

\* The texts given to the sanitizer: up to MaxPieces pieces, and texts of about
\* WordLimit words
SanInputs ==
  {Concat(ps) : ps \in UNION {[1..n -> Pieces] : n \in 0..MaxPieces}}
  \cup {Repeat(<<"w", " ">>, n) : n \in (WordLimit - 1)..(WordLimit + MaxExtraWords)}

NoText == <<"none">>

\* preprocessEmailBody(x) is called, and called again on what it returned
SanInit ==
  /\ NInit
  /\ variant = "part_001"
  /\ cl \in [pc : {"start"}, x : SanInputs, out : {NoText}, again : {NoText}]

SanFirst ==
  /\ cl.pc = "start"
  /\ cl' = [cl EXCEPT !.pc = "once", !.out = preprocessEmailBody(cl.x)]
  /\ UNCHANGED nvars

SanSecond ==
  /\ cl.pc = "once"
  /\ cl' = [cl EXCEPT !.pc = "twice", !.again = preprocessEmailBody(cl.out)]
  /\ UNCHANGED nvars

SanNext == SanFirst \/ SanSecond

SanSpec == SanInit /\ [][SanNext]_vars

(***************************************************************************)
(* The extraction of a message's body (GmailAPI, src/gmail.js).            *)
(*                                                                         *)
(* A part of a message is a record of its mimeType ("" when it has none),  *)
(* its body.data (the empty text when it has none) and its parts (the      *)
(* empty list when it has none). The data of the model decodes to ASCII    *)
(* text, to two-byte UTF-8 sequences or to bytes that are no UTF-8.        *)
(***************************************************************************)
B64 == <<"A", "B", "C", "D", "E", "F", "G", "H", "I", "J", "K", "L", "M", "N", "O", "P", "Q", "R", "S", "T", "U", "V", "W", "X", "Y", "Z", "a", "b", "c", "d", "e", "f", "g", "h", "i", "j", "k", "l", "m", "n", "o", "p", "q", "r", "s", "t", "u", "v", "w", "x", "y", "z", "0", "1", "2", "3", "4", "5", "6", "7", "8", "9", "+", "/">>

\* The characters of the codes 32..126 ("BT" stands for the grave accent, code 96)
AsciiTable ==
  <<" ", "!", "\"", "#", "$", "%", "&", "'", "(", ")", "*", "+", ",", "-", ".", "/", "0", "1", "2", "3", "4", "5", "6", "7", "8", "9", ":", ";", "<", "=", ">", "?", "@", "A", "B", "C", "D", "E", "F", "G", "H", "I", "J", "K", "L", "M", "N", "O", "P", "Q", "R", "S", "T", "U", "V", "W", "X", "Y", "Z", "[", "\\", "]", "^", "_">>
  \o <<"BT">> \o <<"a", "b", "c", "d", "e", "f", "g", "h", "i", "j", "k", "l", "m", "n", "o", "p", "q", "r", "s", "t", "u", "v", "w", "x", "y", "z", "{", "|", "}", "~">>

\* What a call gives when it throws
Raised == <<"RAISED">>

\* atob: whitespace is ignored, padding of a text whose length is a multiple of 4
\* is dropped, then a length of 4n + 1 or a character outside the alphabet throws;
\* the result is the sequence of bytes, with whether the call threw
atob(s) ==
  LET n0 == SelectSeq(s, LAMBDA c : c \notin WS)
      pad == IF Len(n0) % 4 = 0 /\ Len(n0) >= 2 /\ n0[Len(n0)] = "="
             THEN IF n0[Len(n0) - 1] = "=" THEN 2 ELSE 1
             ELSE 0
      n == SubSeq(n0, 1, Len(n0) - pad)
      v == [k \in 1..Len(n) |-> (CHOOSE x \in 1..Len(B64) : B64[x] = n[k]) - 1]
  IN IF Len(n) % 4 = 1 \/ \E k \in 1..Len(n) : n[k] \notin {B64[x] : x \in 1..Len(B64)}
     THEN [threw |-> TRUE, bytes |-> <<>>]
     ELSE [threw |-> FALSE,
           bytes |-> [j \in 1..((6 * Len(n)) \div 8) |->
                        LET a == ((8 * (j - 1)) \div 6) + 1
                            o == (8 * (j - 1)) % 6
                        IN IF o = 0 THEN v[a] * 4 + (v[a + 1] \div 16)
                           ELSE IF o = 2 THEN (v[a] % 16) * 16 + (v[a + 1] \div 4)
                           ELSE (v[a] % 4) * 64 + v[a + 1]]]

\* decodeURIComponent of the bytes, each written %xx: ASCII bytes are their
\* characters, a lead byte with its continuation byte is one character ("U2"
\* stands for it), any other byte above 127 throws
decodeURIComponent(bytes) ==
  LET Lead(b) == b >= 194 /\ b <= 223
      Cont(b) == b >= 128 /\ b <= 191
      ok == \A k \in 1..Len(bytes) :
              \/ bytes[k] < 128
              \/ Lead(bytes[k]) /\ k < Len(bytes) /\ Cont(bytes[k + 1])
              \/ Cont(bytes[k]) /\ k > 1 /\ Lead(bytes[k - 1])
      ch(b) == IF b >= 32 /\ b <= 126 THEN AsciiTable[b - 31]
               ELSE IF b = 10 THEN "\n"
               ELSE IF b = 9 THEN "\t"
               ELSE IF b = 13 THEN "\r"
               ELSE IF b < 128 THEN "C0"
               ELSE IF Lead(b) THEN "U2"
               ELSE ""
  IN IF ok THEN SelectSeq([k \in 1..Len(bytes) |-> ch(bytes[k])], LAMBDA c : c # "")
     ELSE Raised

decodeBase64NoCatch(base64String) ==
  LET normalized == [k \in 1..Len(base64String) |->
                       IF base64String[k] = "-" THEN "+"
                       ELSE IF base64String[k] = "_" THEN "/"
                       ELSE base64String[k]]
      binary == atob(normalized)
  IN IF binary.threw THEN Raised ELSE decodeURIComponent(binary.bytes)

\* decodeBase64: the URL-safe alphabet is mapped to the standard one, the bytes
\* are read as UTF-8, and anything thrown on the way is caught and gives ''
decodeBase64(base64String) ==
  LET normalized == [k \in 1..Len(base64String) |->
                       IF base64String[k] = "-" THEN "+"
                       ELSE IF base64String[k] = "_" THEN "/"
                       ELSE base64String[k]]
      binary == atob(normalized)
      decoded == IF binary.threw THEN Raised ELSE decodeURIComponent(binary.bytes)
  IN IF decoded = Raised THEN <<>> ELSE decoded

\* html.replace(/<[^>]*>/g, ''): from is where the scan is
RECURSIVE RemoveTags(_, _)
RemoveTags(t, from) ==
  LET I == {i \in from..Len(t) : t[i] = "<" /\ \E k \in (i + 1)..Len(t) : t[k] = ">"}
  IN IF I = {} THEN SubSeq(t, from, Len(t))
     ELSE SubSeq(t, from, MinOf(I) - 1)
          \o RemoveTags(t, MinOf({k \in (MinOf(I) + 1)..Len(t) : t[k] = ">"}) + 1)

\* stripHtml where there is no document (the service worker that imports
\* gmail.js): the reference to document throws, and the catch block removes the
\* tags, makes a run of whitespace one space and trims
stripHtml(html) ==
  IF html = Raised THEN Raised ELSE Trim(CollapseWS(RemoveTags(html, 1)))

\* part.mimeType === mime && part.body?.data
IsText(part, mime) == part.mimeType = mime /\ part.data # <<>>

FirstTextPart(parts) ==
  LET T == {k \in 1..Len(parts) : IsText(parts[k], "text/plain") \/ IsText(parts[k], "text/html")}
  IN IF T = {} THEN 0 ELSE MinOf(T)

\* The part that the two loops of lines 117-128 return from: the first
\* text/plain part with data, else the first text/html part with data, else 0
PreferredPart(parts) ==
  LET P == {k \in 1..Len(parts) : IsText(parts[k], "text/plain")}
      H == {k \in 1..Len(parts) : IsText(parts[k], "text/html")}
  IN IF P # {} THEN MinOf(P) ELSE IF H # {} THEN MinOf(H) ELSE 0

\* No payload (messageData.payload is undefined)
NoPayload == [mimeType |-> "undefined", data |-> <<>>, parts |-> <<>>]

RECURSIVE extractEmailBody(_), NestedBody(_, _)
extractEmailBody(payload) ==
  IF payload = NoPayload THEN <<>>
  ELSE
    LET single == payload.mimeType # "" /\ payload.data # <<>>
        content == decodeBase64(payload.data)
        k == PreferredPart(payload.parts)
        text == decodeBase64(payload.parts[k].data)
    IN IF single /\ content = Raised THEN Raised
       ELSE IF single /\ payload.mimeType = "text/plain" THEN content
       ELSE IF single /\ payload.mimeType = "text/html" THEN stripHtml(content)
       ELSE IF k = 0 THEN NestedBody(payload.parts, 1)
       ELSE IF payload.parts[k].mimeType = "text/plain" THEN text
       ELSE stripHtml(text)

\* Lines 131-136: the first part, in order, whose extraction is not ''
NestedBody(parts, j) ==
  IF j > Len(parts) THEN <<>>
  ELSE LET nestedBody == extractEmailBody(parts[j])
       IN IF nestedBody # <<>> THEN nestedBody ELSE NestedBody(parts, j + 1)

MaxNestedParts == 2  \* parts of a part of the payload
MaxParts == 2        \* parts of the payload

Leaf(mime, data) == [mimeType |-> mime, data |-> data, parts |-> <<>>]

\* Parts without parts: plain text "Hello world", HTML "<b>hi</b>" (URL-safe
\* alphabet), an attachment with data that is no UTF-8, an attachment and a plain
\* part without inline data, a plain part with data that is no base64
Leaves ==
  {Leaf("text/plain", <<"S", "G", "V", "s", "b", "G", "8", "g", "d", "2", "9", "y", "b", "G", "Q", "=">>),
   Leaf("text/html", <<"P", "G", "I", "-", "a", "G", "k", "8", "L", "2", "I", "-">>),
   Leaf("application/pdf", <<"_", "w">>),
   Leaf("application/pdf", <<>>),
   Leaf("text/plain", <<>>),
   Leaf("text/plain", <<"!", "!">>)}

Container(parts) == [mimeType |-> "multipart/mixed", data |-> <<>>, parts |-> parts]

Lists(S, n) == UNION {[1..m -> S] : m \in 0..n}

Nested == Leaves \cup {Container(ps) : ps \in Lists(Leaves, MaxNestedParts)}

\* The payloads of the model: none, a single part, parts with parts
Payloads == {NoPayload} \cup Leaves \cup {Container(ps) : ps \in Lists(Nested, MaxParts)}

\* parseMessage calls extractEmailBody(messageData.payload)
ExtractInit ==
  /\ NInit
  /\ variant = "part_001"
  /\ cl \in [pc : {"start"}, payload : Payloads, body : {NoText}]

Extract ==
  /\ cl.pc = "start"
  /\ cl' = [cl EXCEPT !.pc = "done", !.body = extractEmailBody(cl.payload)]
  /\ UNCHANGED nvars

ExtractNext == Extract

ExtractSpec == ExtractInit /\ [][ExtractNext]_vars

(***************************************************************************)
(* The credential of the AI service: the popup's save handler writes it to *)
(* chrome.storage.local, AIProcessor.loadSettings reads it (src/ai.js).    *)
(***************************************************************************)
MaxCalls == 3  \* calls of processEmail in a behaviour

\* processEmail after loadSettings returned settings: the AI call is made when
\* settings.aiApiKey is truthy and the cleaned body is not empty, else the rules
\* answer ("null": no key, or no settings object in storage)
ModeOf(aiApiKey, cleaned) == IF aiApiKey = "null" \/ ~cleaned THEN "rules" ELSE "ai"

\* cl.stored is settings.aiApiKey in chrome.storage.local ("unset": no settings
\* object), cl.settings is the cache this.settings ("unloaded": null), cl.mode is
\* what the last call of processEmail did and cl.at is what the storage held then
KeyInit ==
  /\ NInit
  /\ variant = "part_001"
  /\ cl = [pc |-> "idle", stored |-> "unset", settings |-> "unloaded", cleaned |-> FALSE,
           calls |-> 0, mode |-> "-", at |-> "-"]

\* The popup's save handler: the trimmed input, or null when it is empty
saveBtnClick(input) ==
  /\ cl' = [cl EXCEPT !.stored = IF input = "" THEN "null" ELSE input]
  /\ UNCHANGED nvars

\* processEmail is called: loadSettings returns the cache when it is set, and
\* otherwise awaits the read of the storage
processEmailCall(cleaned) ==
  /\ cl.pc = "idle"
  /\ cl.calls < MaxCalls
  /\ cl' = IF cl.settings = "unloaded"
           THEN [cl EXCEPT !.pc = "read", !.cleaned = cleaned, !.calls = @ + 1,
                           !.mode = "-", !.at = "-"]
           ELSE [cl EXCEPT !.cleaned = cleaned, !.calls = @ + 1,
                           !.mode = ModeOf(cl.settings, cleaned), !.at = cl.stored]
  /\ UNCHANGED nvars

\* The read of loadSettings resolves: data.settings || { aiApiKey: null } is
\* cached, and processEmail goes on
loadSettingsRead ==
  /\ cl.pc = "read"
  /\ \E found \in {IF cl.stored = "unset" THEN "null" ELSE cl.stored} :
       cl' = [cl EXCEPT !.pc = "idle", !.settings = found,
                        !.mode = ModeOf(found, cl.cleaned), !.at = cl.stored]
  /\ UNCHANGED nvars

\* The read rejects: processEmail throws and nothing is cached
loadSettingsFail ==
  /\ cl.pc = "read"
  /\ cl' = [cl EXCEPT !.pc = "idle"]
  /\ UNCHANGED nvars

\* The service worker starts again: `new AIProcessor()` has settings null; the
\* storage outlives the worker
workerRestart ==
  /\ cl' = [cl EXCEPT !.pc = "idle", !.settings = "unloaded"]
  /\ UNCHANGED nvars

KeyNext ==
  \/ \E input \in {"", "k1", "k2"} : saveBtnClick(input)
  \/ \E cleaned \in BOOLEAN : processEmailCall(cleaned)
  \/ loadSettingsRead
  \/ loadSettingsFail
  \/ workerRestart

KeySpec == KeyInit /\ [][KeyNext]_vars

(***************************************************************************)
(* Properties of the notifier.                                             *)
(***************************************************************************)
\* The step is one of the worker starting again.
RestartStep == \E n \in 0..MaxInits : Restart(n)

\* In this step invocation c takes message Inbox[k] into the pipeline.
Takes(c, k) ==
  /\ Len(cyc') = Len(cyc)
  /\ cyc'[c].i = k
  /\ cyc[c].i # k
  /\ k \in 1..Len(Inbox)

\* C1: once a poll cycle has finished a message (processEmail, then markAsProcessed
\* returned), no poll cycle that starts afterwards takes that message into the
\* pipeline again, unless the processed history was cleared in between.
C1_NoReprocessing ==
  [][\A c \in 1..Len(cyc) : \A k \in 1..Len(Inbox) :
       Takes(c, k) => Inbox[k] \notin cyc[c].after]_vars

\* C2: no two checkForNewEmails invocations in flight have the same message in
\* the pipeline (classification, notification, mark) at the same time.
C2_NoReentrancy ==
  \A c, d \in 1..Len(cyc) :
    (c # d /\ cyc[c].pc \in PipelinePcs /\ cyc[d].pc \in PipelinePcs)
      => Cur(cyc[c]) # Cur(cyc[d])

\* C3: every id whose markAsProcessed has completed since the last clear is in
\* the set rebuilt from persisted storage, and a clearProcessed leaves no id in
\* the set, in memory and as rebuilt from persisted storage.
C3_MarkAndClearAcrossReload ==
  [][/\ \A m \in finished' : Has(NewSet(stored'), m)
     /\ (\E wok \in BOOLEAN : ClearProcessed(wok))
          => (processedMessages' = <<>> /\ NewSet(stored') = <<>>)]_vars

\* C4: an id is added to the processed set (the invocation is at the write of
\* markAsProcessed) only after chrome.notifications.create was called for that
\* message in the same invocation.
C4_MarkedOnlyAfterDispatch ==
  \A c \in 1..Len(cyc) : cyc[c].pc = "mark" => cyc[c].att

\* C5: an invocation that has a message in the pipeline never ends while a later
\* message of its batch is still not in the processed set.
C5_FaultDoesNotStopBatch ==
  [][\A c \in 1..Len(cyc) :
       (/\ cyc[c].pc \in PipelinePcs
        /\ cyc' = RemoveAt(cyc, c)
        /\ ~RestartStep)
       => \A k \in (cyc[c].i + 1)..Len(Inbox) : Has(processedMessages', Inbox[k])]_vars

\* C6: the persisted list holds every id whose markAsProcessed has completed
\* since the last clear.
C6_NoLostUpdate == finished \subseteq Elems(stored)

\* C8: an invocation does not wait for the AI call for ever: the oldest invocation
\* in flight, when it waits for callAI's fetch, eventually goes on.
C8_AICallBounded ==
  (Len(cyc) >= 1 /\ cyc[1].pc = "ai") ~> ~(Len(cyc) >= 1 /\ cyc[1].pc = "ai")

(***************************************************************************)
(* Properties of the classifier.                                           *)
(***************************************************************************)
\* The AI call of the finished run failed: a transport error, an error status or
\* content that is not JSON.
AIFailed == cl.pc = "done" /\ cl.resp.kind \in {"transport", "status", "badjson"}

\* The rule classifier's result: what processEmail returns with no credential.
RuleResult == basicFallback(cl.subject, cleanEmail(cl.body))

\* C7: when the AI call fails, processEmail returns exactly the rule classifier's
\* result for the same subject and sanitized text.
C7_FailureGivesRuleResult == AIFailed => cl.result = RuleResult

\* C9: every result of processEmail has a summary of at most 35 words.
C9_SummaryWordLimit == cl.pc = "done" => Len(cl.result.summary) <= MaxSummaryWords

\* The service answered with a tag that is absent or outside the four values.
BadModelTag == cl.pc = "done" /\ cl.resp.kind = "parsed" /\ cl.resp.tag \notin Allowed

\* processEmail accepts the model's summary: a string of at least 10 characters.
SummaryAccepted == cl.resp.summary # <<>> /\ Chars(cl.resp.summary) >= MinSummaryChars

C12_NoUrlOrPhoneInSummary ==
  (cl.pc = "done" /\ cl.resp.kind = "parsed") =>
    \A k \in 1..Len(cl.result.summary) : cl.result.summary[k] \notin {"url", "555-123-4567"}

HasTextSiblings(parts) ==
  /\ \E k \in 1..Len(parts) : IsText(parts[k], "text/plain")
  /\ \E k \in 1..Len(parts) : IsText(parts[k], "text/html")

\* The decoded content of the first text/plain part with data among the parts
PlainOf(parts) ==
  decodeBase64(parts[MinOf({k \in 1..Len(parts) : IsText(parts[k], "text/plain")})].data)

\* C14 (amended): when a text/plain part and a text/html part with data are
\* siblings among the parts of the payload, the body is the decoded plain text,
\* in any order of the siblings; when they are siblings inside a part, it is the
\* decoded plain text if no part of the payload is a text part with data, no
\* earlier part yields text and the plain text is not empty.
C14_PlainPreferred ==
  cl.pc = "done" =>
    /\ (cl.payload.mimeType = "multipart/mixed" /\ HasTextSiblings(cl.payload.parts))
         => cl.body = PlainOf(cl.payload.parts)
    /\ \A k \in 1..Len(cl.payload.parts) :
         (/\ cl.payload.mimeType = "multipart/mixed"
          /\ \A j \in 1..Len(cl.payload.parts) :
               /\ ~IsText(cl.payload.parts[j], "text/plain")
               /\ ~IsText(cl.payload.parts[j], "text/html")
          /\ HasTextSiblings(cl.payload.parts[k].parts)
          /\ PlainOf(cl.payload.parts[k].parts) # <<>>
          /\ \A j \in 1..(k - 1) : extractEmailBody(cl.payload.parts[j]) = <<>>)
         => cl.body = PlainOf(cl.payload.parts[k].parts)

\* The HTML part comes first, and the body is the plain text of the second part
C14_Witness ==
  /\ cl.pc = "done"
  /\ Len(cl.payload.parts) = 2
  /\ IsText(cl.payload.parts[1], "text/html")
  /\ IsText(cl.payload.parts[2], "text/plain")
  /\ cl.body = <<"H", "e", "l", "l", "o", " ", "w", "o", "r", "l", "d">>

\* C14 as stated: when a text/plain part and a text/html part with data are
\* siblings at any level of the tree, the body is the decoded plain text.
C14_AsStated ==
  cl.pc = "done" =>
    /\ (cl.payload.mimeType = "multipart/mixed" /\ HasTextSiblings(cl.payload.parts))
         => cl.body = PlainOf(cl.payload.parts)
    /\ \A k \in 1..Len(cl.payload.parts) :
         (/\ cl.payload.mimeType = "multipart/mixed"
          /\ ~HasTextSiblings(cl.payload.parts)
          /\ HasTextSiblings(cl.payload.parts[k].parts)
          /\ \A j \in 1..(k - 1) : ~HasTextSiblings(cl.payload.parts[j].parts))
         => cl.body = PlainOf(cl.payload.parts[k].parts)

\* No part of the tree is a text/plain or text/html part with data
RECURSIVE NoTextData(_)
NoTextData(part) ==
  /\ ~IsText(part, "text/plain")
  /\ ~IsText(part, "text/html")
  /\ \A k \in 1..Len(part.parts) : NoTextData(part.parts[k])

\* C15: when no part of the message is a text/plain or text/html part with data
\* (attachments only, empty lists of parts, no payload), the body is the empty
\* text and nothing is thrown.
C15_NoTextGivesEmpty ==
  (cl.pc = "done" /\ NoTextData(cl.payload)) => cl.body = <<>> /\ cl.body # Raised

\* An attachment with data inside a part, and the body is empty
C15_Witness ==
  /\ cl.pc = "done"
  /\ NoTextData(cl.payload)
  /\ \E k \in 1..Len(cl.payload.parts) :
       \E j \in 1..Len(cl.payload.parts[k].parts) :
         cl.payload.parts[k].parts[j].data # <<>>
  /\ cl.body = <<>>

(***************************************************************************)
(* Properties of the sanitizer (preprocessEmailBody of the README).        *)
(***************************************************************************)
\* C16: the sanitizer is idempotent on its own output:
\* sanitize(sanitize(x)) = sanitize(x).
C16_Idempotent == cl.pc = "twice" => cl.again = cl.out

\* The number of [PHONE] placeholders in a text
NPhone(t) == Cardinality({i \in 1..Len(t) : MatchAt(t, i, <<"[", "P", "H", "O", "N", "E", "]">>, FALSE)})

PhoneGrowth == 3  \* '[PHONE]' (line 244) is 3 characters longer than its shortest match

C18_GreetingAndClosingRemoved ==
  cl.pc \in {"once", "twice"} =>
    /\ cl.x = <<"H", "i", " ", "J", "o", "h", "n", ",", "\n", "P", "l", "e", "a", "s", "e", " ", "s", "e", "n", "d", " ", "t", "h", "e", " ", "r", "e", "p", "o", "r", "t", " ", "b", "y", " ", "F", "r", "i", "d", "a", "y", ".", "\n", "B", "e", "s", "t", " ", "r", "e", "g", "a", "r", "d", "s", ",", "\n", "J", "a", "n", "e">> =>
         /\ Includes(cl.out, <<"P", "l", "e", "a", "s", "e", " ", "s", "e", "n", "d", " ", "t", "h", "e", " ", "r", "e", "p", "o", "r", "t", " ", "b", "y", " ", "F", "r", "i", "d", "a", "y", ".">>)
         /\ ~Includes(cl.out, <<"H", "i", " ", "J", "o", "h", "n">>)
         /\ ~Includes(cl.out, <<"B", "e", "s", "t", " ", "r", "e", "g", "a", "r", "d", "s">>)
    /\ MatchAt(cl.x, 1, <<"H", "i", " ", "J", "o", "h", "n", ",", "\n">>, FALSE) => ~MatchAt(cl.out, 1, <<"H", "i", " ", "J", "o", "h", "n">>, FALSE)
    /\ (\E i \in 1..Len(cl.x) : MatchAt(cl.x, i, <<"B", "e", "s", "t", " ", "r", "e", "g", "a", "r", "d", "s", ",", "\n", "J", "a", "n", "e">>, FALSE)
                                 /\ i + 17 = Len(cl.x))
         => ~Includes(cl.out, <<"B", "e", "s", "t", " ", "r", "e", "g", "a", "r", "d", "s">>)

C20_RetryAfterReauth ==
  [][\A c \in 1..Len(cyc) :
       ReauthGot(c, TRUE) => (Len(cyc') = Len(cyc) /\ cyc'[c].pc = "list")]_vars

C22_EmergencyAtMost150 ==
  (/\ cl.pc = "done" /\ cl.resp.kind = "parsed"
   /\ cl.result.summary = createEmergencySummary(cl.content)
   /\ cl.result.summary # cl.resp.summary)
  => Len(cl.result.summary) <= EmergencyChars

(***************************************************************************)
(* Properties of the AI credential.                                        *)
(***************************************************************************)
\* C23: whenever processEmail has decided for a message whose cleaned body is not
\* empty, the AI call is made if and only if the storage holds a key at that
\* moment - also when the key was saved or removed after an earlier call.
C23_ModeFollowsStoredKey ==
  (cl.mode # "-" /\ cl.cleaned) => (cl.mode = "ai" <=> cl.at \in {"k1", "k2"})

(***************************************************************************)
(* Properties of the notifier: stopping.                                   *)
(***************************************************************************)
\* C24: while polling is stopped (part_001: stopPolling has set isRunning to
\* false and no start is under way), no invocation of checkForNewEmails takes a
\* message into the pipeline and no id is added to the processed set, also when
\* an invocation was in flight at the stop.
C24_NoWorkAfterStop ==
  [][(variant = "part_001" /\ ~isRunning /\ ~isRunning' /\ tog = "idle" /\ tog' = "idle")
       => /\ \A c \in 1..Len(cyc) : \A k \in 1..Len(Inbox) : ~Takes(c, k)
          /\ Elems(processedMessages') \subseteq Elems(processedMessages)]_vars

(***************************************************************************)
(* Properties of the extraction of a message's body, continued.            *)
(***************************************************************************)
\* C25: when a text/plain or text/html part with data, anywhere in the tree of
\* the message, decodes to a text that is not empty, the body is not empty,
\* whatever the parts before it decode to.
C25_BestEffort ==
  LET Decodes(p) ==
        \/ IsText(p, "text/plain") /\ decodeBase64(p.data) # <<>>
        \/ IsText(p, "text/html") /\ stripHtml(decodeBase64(p.data)) # <<>>
  IN (/\ cl.pc = "done"
      /\ \/ Decodes(cl.payload)
         \/ \E k \in 1..Len(cl.payload.parts) :
              \/ Decodes(cl.payload.parts[k])
              \/ \E j \in 1..Len(cl.payload.parts[k].parts) :
                   Decodes(cl.payload.parts[k].parts[j]))
     => cl.body # <<>>

====
